---- MODULE Spec2Model ----
(***************************************************************************)
(* Model of recipes/DeployPipelineAirflowRecipe/steps.py: the two steps    *)
(* SetupPipelineStep and DeployAirflowStep, each a coroutine that awaits a *)
(* fixed sequence of calls to the host SDK.                                *)
(*                                                                         *)
(* A Python string is modelled as a sequence of chunks (each chunk a piece *)
(* of literal text); an f-string is the concatenation of its literal       *)
(* chunks and the interpolated values.  The chunks are chosen so that the  *)
(* three find-and-replace patterns and their replacements are whole chunk  *)
(* sequences and a match in the text is a match of chunks.                 *)
(*                                                                         *)
(* A state is the coroutine suspended on one awaited call: pc names the    *)
(* call in flight, calls is the log of calls issued so far, returned the   *)
(* number of them that returned and raised the number that raised.  An     *)
(* action is the resumption of the coroutine: the awaited call returns,    *)
(* the code up to the next await runs and the next call is issued.         *)
(***************************************************************************)
EXTENDS Integers, Sequences, FiniteSets, TLC

VARIABLES step, source_name, supplied, pc, status, calls, returned, raised,
          directory, filepath, response, content, generated

vars == <<step, source_name, supplied, pc, status, calls, returned, raised,
          directory, filepath, response, content, generated>>

\* Number of pieces a generated DAG file is assembled from.
MaxPieces == 2

----------------------------------------------------------------------------
(* Strings *)

\* The chunk standing for the backquote character.
Backtick == "<backquote>"

\* A local variable that has not been assigned yet.
Unbound == <<"<unbound>">>

RECURSIVE Flatten(_)
Flatten(ss) == IF ss = <<>> THEN <<>> ELSE Head(ss) \o Flatten(Tail(ss))

\* Literal find-and-replace: every non-overlapping occurrence of pat, found
\* in one pass from the left, is replaced by rep.
RECURSIVE ReplaceAll(_, _, _)
ReplaceAll(str, pat, rep) ==
    IF Len(str) < Len(pat) \/ pat = <<>> THEN str
    ELSE IF SubSeq(str, 1, Len(pat)) = pat
         THEN rep \o ReplaceAll(SubSeq(str, Len(pat) + 1, Len(str)), pat, rep)
         ELSE <<Head(str)>> \o ReplaceAll(Tail(str), pat, rep)

\* os.path.join(a, b) for two components.
PathJoin(a, b) ==
    IF b # <<>> /\ Head(b) = "/" THEN b
    ELSE IF a = <<>> \/ a[Len(a)] = "/" THEN a \o b
    ELSE a \o <<"/">> \o b

----------------------------------------------------------------------------
(* Inputs *)

\* Values of the source_name field.
SourceNames ==
    { <<"chess">>, <<>>, <<"sql", "_", "db">>, <<"pipeline">>,
      <<"pipeline", "_", "or_source_script">> }

\* Values getWorkspaceDirectory can return.
Directories == { <<"/ws">>, <<"/ws", "/">> }

\* Texts the user can type at the prompt.
UserTexts == { <<"every day">>, <<>> }

\* The find-and-replace patterns.
PipelineNamePattern == <<"'", "pipeline", "_", "name", "'">>
DatasetNamePattern == <<"'", "dataset", "_", "name", "'">>
ScriptPattern == <<"pipeline", "_", "or_source_script">>

\* Pieces of text a DAG file generated by "dlt deploy" is assembled from.
Pieces ==
    { PipelineNamePattern, DatasetNamePattern, ScriptPattern,
      <<" ">>,
      <<"_", "or_source_script">>,
      <<"pipeline", "_", "name", "'">>,
      <<"dataset", "_", "name", "'">> }

Contents ==
    { Flatten(ps) : ps \in UNION { [1..n -> Pieces] : n \in 0..MaxPieces } }

----------------------------------------------------------------------------
(* The calls a step makes on the SDK *)

RunCall(commands, description, name) ==
    [kind |-> "run", commands |-> commands, description |-> description,
     name |-> name]

GetWorkspaceDirectoryCall == [kind |-> "getWorkspaceDirectory"]

FindAndReplaceStep(path, pattern, replacement) ==
    [kind |-> "FindAndReplaceStep", filepath |-> path, pattern |-> pattern,
     replacement |-> replacement]

HighlightCodeCall(path, range, color) ==
    [kind |-> "highlightCode", filepath |-> path, range |-> range,
     color |-> color]

WaitForUserInputStep(prompt) ==
    [kind |-> "WaitForUserInputStep", prompt |-> prompt]

EditFileCall(path, prompt, range) ==
    [kind |-> "edit_file", filepath |-> path, prompt |-> prompt,
     range |-> range]

MessageStep(message, name) ==
    [kind |-> "MessageStep", message |-> message, name |-> name]

\* Range.from_shorthand(start_line, start_char, end_line, end_char)
FromShorthand(sl, sc, el, ec) ==
    [start |-> [line |-> sl, character |-> sc],
     end |-> [line |-> el, character |-> ec]]

----------------------------------------------------------------------------
(* SetupPipelineStep *)

\* Mutant: dlt is installed after the pipeline is initialised.
SetupCommands_InitFirst(s) ==
    << <<"python3 -m venv env">>,
       <<"source env/bin/activate">>,
       <<"dlt ", "--non-interactive ", "init ">> \o s \o <<" duckdb">>,
       <<"pip install dlt">>,
       <<"pip install -r requirements.txt">> >>

SetupCommands(s) ==
    << <<"python3 -m venv env">>,
       <<"source env/bin/activate">>,
       <<"pip install dlt">>,
       <<"dlt ", "--non-interactive ", "init ">> \o s \o <<" duckdb">>,
       <<"pip install -r requirements.txt">> >>

\* The dedented description; a backquote is a chunk of its own.
SetupDescription(s) ==
    <<"Running the following commands:", "\n">>
    \o <<"- ", Backtick, "python3 -m venv env", Backtick,
         ": Create a Python virtual environment", "\n">>
    \o <<"- ", Backtick, "source env/bin/activate", Backtick,
         ": Activate the virtual environment", "\n">>
    \o <<"- ", Backtick, "pip install dlt", Backtick, ": Install dlt", "\n">>
    \o <<"- ", Backtick, "dlt ", "init ">> \o s \o <<" duckdb", Backtick,
         ": Create a new dlt pipeline called ">> \o s
    \o <<" that loads data into a local DuckDB instance", "\n">>
    \o <<"- ", Backtick, "pip install -r requirements.txt", Backtick,
         ": Install the Python dependencies for the pipeline">>

SetupRunCall(s) ==
    RunCall(SetupCommands(s), SetupDescription(s),
            <<"Setup Python environment">>)

----------------------------------------------------------------------------
(* DeployAirflowStep *)

DeployCommands(s) ==
    << <<"dlt ", "--non-interactive ", "deploy ">> \o s
       \o <<"_pipeline.py airflow-composer">> >>

DeployRunCall(s) ==
    RunCall(DeployCommands(s),
            <<"Running ", Backtick, "dlt deploy airflow", Backtick,
              " to deploy the dlt pipeline to Airflow">>,
            <<"Deploy dlt pipeline to Airflow">>)

DagPath(dir, s) == PathJoin(dir, <<"dags/dag_">> \o s \o <<"_pipeline.py">>)

PipelineNameReplace(path, s) ==
    FindAndReplaceStep(path, PipelineNamePattern,
                       <<"'">> \o s \o <<"_", "pipeline", "'">>)

\* Mutant: the dataset name is given the pipeline's suffix.
DatasetNameReplace_PipelineSuffix(path, s) ==
    FindAndReplaceStep(path, DatasetNamePattern,
                       <<"'">> \o s \o <<"_", "pipeline", "'">>)

DatasetNameReplace(path, s) ==
    FindAndReplaceStep(path, DatasetNamePattern,
                       <<"'">> \o s \o <<"_", "data", "'">>)

\* Mutant: the script name is replaced by the bare source name.
ScriptReplace_NoSuffix(path, s) ==
    FindAndReplaceStep(path, ScriptPattern, s)

ScriptReplace(path, s) ==
    FindAndReplaceStep(path, ScriptPattern, s \o <<"_", "pipeline">>)

edit_dag_range == FromShorthand(18, 0, 23, 0)

HighlightCall(path) ==
    HighlightCodeCall(path, edit_dag_range, <<"#33993333">>)

WaitCall ==
    WaitForUserInputStep(
        <<"When would you like this Airflow DAG to run? (e.g. every day, every Monday, every 1st of the month, etc.)">>)

\* Mutant: the instruction is built from an empty default, not the answer.
EditPrompt_Default(text) ==
    <<"Edit the DAG so that it runs at the following schedule: '">>
    \o <<>> \o <<"'">>

EditPrompt(text) ==
    <<"Edit the DAG so that it runs at the following schedule: '">>
    \o text \o <<"'">>

\* Mutant: the edit is given a range other than the highlighted one.
EditCall_OtherRange(path, text) ==
    EditFileCall(path, EditPrompt(text), FromShorthand(0, 0, 23, 0))

EditCall(path, text) == EditFileCall(path, EditPrompt(text), edit_dag_range)

\* Mutant: the closing message repeats the schedule the user typed.
MessageCall_WithSchedule ==
    MessageStep(
        <<"Fill in the owner, email, and other default_args in the DAG file with your own personal information.">>
        \o response,
        <<"Fill in default_args">>)

MessageCall ==
    MessageStep(
        <<"Fill in the owner, email, and other default_args in the DAG file with your own personal information.">>,
        <<"Fill in default_args">>)

\* The effect of a find-and-replace step on the file it names.
Apply(far, text) == ReplaceAll(text, far.pattern, far.replacement)

----------------------------------------------------------------------------
(* The state machine *)

Init ==
    /\ step \in {"setup", "deploy"}
    /\ source_name \in SourceNames
    /\ supplied = source_name
    /\ pc = "start"
    /\ status = "running"
    /\ calls = <<>>
    /\ returned = 0
    /\ raised = 0
    /\ directory = Unbound
    /\ filepath = Unbound
    /\ response = Unbound
    /\ content = <<>>
    /\ generated = <<>>

\* The call the coroutine is suspended on.
InFlight == calls[Len(calls)]

\* The awaited call returns and the coroutine runs on to issue call c.
ReturnsThenIssue(c, next) ==
    /\ returned' = returned + 1
    /\ raised' = raised
    /\ calls' = Append(calls, c)
    /\ pc' = next

\* SetupPipelineStep.run is entered: sdk.run([...]) is issued.
SetupStart ==
    /\ step = "setup" /\ status = "running" /\ pc = "start"
    /\ calls' = Append(calls, SetupRunCall(source_name))
    /\ pc' = "run"
    /\ UNCHANGED <<step, source_name, supplied, status, returned, raised,
                   directory, filepath, response, content, generated>>

\* sdk.run returns; run() has nothing more to do.
SetupRunReturns ==
    /\ step = "setup" /\ status = "running" /\ pc = "run"
    /\ returned' = returned + 1
    /\ pc' = "end"
    /\ status' = "done"
    /\ UNCHANGED <<step, source_name, supplied, calls, raised, directory,
                   filepath, response, content, generated>>

\* DeployAirflowStep.run is entered: the deploy command is issued.
DeployStart ==
    /\ step = "deploy" /\ status = "running" /\ pc = "start"
    /\ calls' = Append(calls, DeployRunCall(source_name))
    /\ pc' = "run"
    /\ UNCHANGED <<step, source_name, supplied, status, returned, raised,
                   directory, filepath, response, content, generated>>

\* The deploy command returns, having generated the DAG file; the workspace
\* directory is asked for.
DeployRunReturns ==
    /\ step = "deploy" /\ status = "running" /\ pc = "run"
    /\ \E c \in Contents : content' = c /\ generated' = c
    /\ ReturnsThenIssue(GetWorkspaceDirectoryCall, "getWorkspaceDirectory")
    /\ UNCHANGED <<step, source_name, supplied, status, directory, filepath,
                   response>>

\* The directory is returned, filepath is computed, the first replacement
\* is issued.
GetWorkspaceDirectoryReturns ==
    /\ step = "deploy" /\ status = "running" /\ pc = "getWorkspaceDirectory"
    /\ \E d \in Directories :
          /\ directory' = d
          /\ filepath' = DagPath(d, source_name)
    /\ ReturnsThenIssue(PipelineNameReplace(filepath', source_name),
                        "replace_pipeline_name")
    /\ UNCHANGED <<step, source_name, supplied, status, response, content,
                   generated>>

PipelineNameReplaceReturns ==
    /\ step = "deploy" /\ status = "running" /\ pc = "replace_pipeline_name"
    /\ content' = Apply(InFlight, content)
    /\ ReturnsThenIssue(DatasetNameReplace(filepath, source_name),
                        "replace_dataset_name")
    /\ UNCHANGED <<step, source_name, supplied, status, directory, filepath,
                   response, generated>>

DatasetNameReplaceReturns ==
    /\ step = "deploy" /\ status = "running" /\ pc = "replace_dataset_name"
    /\ content' = Apply(InFlight, content)
    /\ ReturnsThenIssue(ScriptReplace(filepath, source_name), "replace_script")
    /\ UNCHANGED <<step, source_name, supplied, status, directory, filepath,
                   response, generated>>

\* Mutant: the highlight is left out.
ScriptReplaceReturns_SkipsHighlight ==
    /\ step = "deploy" /\ status = "running" /\ pc = "replace_script"
    /\ content' = Apply(InFlight, content)
    /\ ReturnsThenIssue(WaitCall, "wait")
    /\ UNCHANGED <<step, source_name, supplied, status, directory, filepath,
                   response, generated>>

\* The third replacement returns; the range is built and highlighted.
ScriptReplaceReturns ==
    /\ step = "deploy" /\ status = "running" /\ pc = "replace_script"
    /\ content' = Apply(InFlight, content)
    /\ ReturnsThenIssue(HighlightCall(filepath), "highlightCode")
    /\ UNCHANGED <<step, source_name, supplied, status, directory, filepath,
                   response, generated>>

\* Mutant: the AI edit is issued before the user has been prompted.
HighlightReturns_SkipsPrompt ==
    /\ step = "deploy" /\ status = "running" /\ pc = "highlightCode"
    /\ ReturnsThenIssue(EditCall(filepath, response), "edit_file")
    /\ UNCHANGED <<step, source_name, supplied, status, directory, filepath,
                   response, content, generated>>

\* The highlight returns; the user is prompted.
HighlightReturns ==
    /\ step = "deploy" /\ status = "running" /\ pc = "highlightCode"
    /\ ReturnsThenIssue(WaitCall, "wait")
    /\ UNCHANGED <<step, source_name, supplied, status, directory, filepath,
                   response, content, generated>>

\* The user supplies text: the wait returns it and the AI edit is issued.
UserInputReturns ==
    /\ step = "deploy" /\ status = "running" /\ pc = "wait"
    /\ \E text \in UserTexts : response' = text
    /\ ReturnsThenIssue(EditCall(filepath, response'), "edit_file")
    /\ UNCHANGED <<step, source_name, supplied, status, directory, filepath,
                   content, generated>>

\* The AI edit returns, having left the file alone or rewritten the range;
\* the closing message is issued.
EditFileReturns ==
    /\ step = "deploy" /\ status = "running" /\ pc = "edit_file"
    /\ content' \in {content, content \o <<"schedule_interval">>}
    /\ ReturnsThenIssue(MessageCall, "message")
    /\ UNCHANGED <<step, source_name, supplied, status, directory, filepath,
                   response, generated>>

\* The message returns; run() ends.
MessageReturns ==
    /\ step = "deploy" /\ status = "running" /\ pc = "message"
    /\ returned' = returned + 1
    /\ pc' = "end"
    /\ status' = "done"
    /\ UNCHANGED <<step, source_name, supplied, calls, raised, directory,
                   filepath, response, content, generated>>

\* Mutant: the exception is caught and the failed call is issued again.
Raise_Retry ==
    /\ status = "running" /\ pc \notin {"start", "end"}
    /\ Len(calls) < 12
    /\ raised' = raised + 1
    /\ calls' = Append(calls, InFlight)
    /\ UNCHANGED <<step, source_name, supplied, pc, status, returned,
                   directory, filepath, response, content, generated>>

\* The awaited call raises: no try/except in run(), so the exception leaves
\* the coroutine and the step fails.
Raise ==
    /\ status = "running" /\ pc \notin {"start", "end"}
    /\ status' = "failed"
    /\ raised' = raised + 1
    /\ UNCHANGED <<step, source_name, supplied, pc, calls, returned,
                   directory, filepath, response, content, generated>>

\* The resumptions when every call succeeds.
NextOK ==
    \/ SetupStart
    \/ SetupRunReturns
    \/ DeployStart
    \/ DeployRunReturns
    \/ GetWorkspaceDirectoryReturns
    \/ PipelineNameReplaceReturns
    \/ DatasetNameReplaceReturns
    \/ ScriptReplaceReturns
    \/ HighlightReturns
    \/ UserInputReturns
    \/ EditFileReturns
    \/ MessageReturns

Next == NextOK \/ Raise

Spec == Init /\ [][Next]_vars

\* Every call returns successfully, the host keeps resuming the coroutine and
\* the user eventually answers the prompt.
FairSpec == Init /\ [][NextOK]_vars /\ WF_vars(NextOK)

----------------------------------------------------------------------------
(* Properties *)

\* pat occurs in str at index i.
OccursAt(str, pat, i) ==
    /\ i >= 1
    /\ i + Len(pat) - 1 <= Len(str)
    /\ SubSeq(str, i, i + Len(pat) - 1) = pat

\* pat occurs somewhere in str.
Contains(str, pat) == \E i \in 1..(Len(str) + 1) : OccursAt(str, pat, i)

Kinds == [i \in 1..Len(calls) |-> calls[i].kind]

IsPrefix(a, b) == Len(a) <= Len(b) /\ SubSeq(b, 1, Len(a)) = a

\* The kinds of the calls of DeployAirflowStep.run, in the order claimed.
DeployOrder ==
    <<"run", "getWorkspaceDirectory", "FindAndReplaceStep",
      "FindAndReplaceStep", "FindAndReplaceStep", "highlightCode",
      "WaitForUserInputStep", "edit_file", "MessageStep">>

\* C1: in every execution of DeployAirflowStep.run the calls issued so far
\* are a prefix of: deploy command, workspace lookup, three find-and-replace
\* steps, highlight, wait for user input, AI edit, 'Fill in default_args'
\* message; and a call is issued only when every earlier one has returned.
C1_DeployCallOrder ==
    step = "deploy" =>
        /\ IsPrefix(Kinds, DeployOrder)
        /\ returned <= Len(calls)
        /\ Len(calls) - returned <= 1
        /\ Len(calls) >= 1 =>
              calls[1].commands =
                  << <<"dlt ", "--non-interactive ", "deploy ">> \o supplied
                     \o <<"_pipeline.py airflow-composer">> >>
        /\ Len(calls) >= 9 => calls[9].name = <<"Fill in default_args">>

C1_Witness ==
    step = "deploy" /\ status = "done" /\ Len(calls) = 9 /\ returned = 9

\* C2: when an awaited call of either step raises, the step has failed, the
\* call that raised is the last one issued, every call before it returned,
\* and no call was issued twice.
C2_NoLocalRecovery ==
    /\ status = "failed" <=> raised > 0
    /\ raised > 0 =>
          /\ raised = 1
          /\ Len(calls) >= 1
          /\ returned = Len(calls) - 1
          /\ IsPrefix(Kinds, IF step = "deploy" THEN DeployOrder ELSE <<"run">>)
          /\ \A i, j \in 1..Len(calls) :
                (i < j /\ calls[i].kind = calls[j].kind) =>
                    /\ calls[i].kind = "FindAndReplaceStep"
                    /\ calls[i].pattern # calls[j].pattern

C2_Witness ==
    /\ step = "deploy" /\ status = "failed" /\ pc = "replace_dataset_name"
    /\ Len(calls) = 4

\* C4: SetupPipelineStep.run issues one command-runner call, with the five
\* commands in the order venv, activate, install dlt, dlt init with the
\* source name as supplied, install requirements.
C4_SetupCommandList ==
    step = "setup" =>
        /\ Len(calls) <= 1
        /\ pc # "start" => Len(calls) = 1
        /\ Len(calls) = 1 =>
              /\ calls[1].kind = "run"
              /\ calls[1].commands =
                    << <<"python3 -m venv env">>,
                       <<"source env/bin/activate">>,
                       <<"pip install dlt">>,
                       <<"dlt ", "--non-interactive ", "init ">> \o supplied
                       \o <<" duckdb">>,
                       <<"pip install -r requirements.txt">> >>

C4_Witness ==
    /\ step = "setup" /\ status = "done" /\ Len(calls) = 1
    /\ supplied = <<"sql", "_", "db">>

\* C5: while the wait for user input is pending neither the AI edit nor the
\* final message has been issued, and the instruction of the AI edit is the
\* fixed sentence around exactly the text the wait returned.
C5_EditAfterAnswer ==
    step = "deploy" =>
        /\ pc = "wait" =>
              \A i \in 1..Len(calls) :
                  calls[i].kind \notin {"edit_file", "MessageStep"}
        /\ \A i \in 1..Len(calls) :
              calls[i].kind \in {"edit_file", "MessageStep"} =>
                  /\ response \in UserTexts
                  /\ \E j \in 1..(i - 1) :
                        calls[j].kind = "WaitForUserInputStep" /\ returned >= j
        /\ \A i \in 1..Len(calls) :
              calls[i].kind = "edit_file" =>
                  calls[i].prompt =
                      <<"Edit the DAG so that it runs at the following schedule: '">>
                      \o response \o <<"'">>

C5_Witness ==
    step = "deploy" /\ pc = "edit_file" /\ response = <<"every day">>

\* The calls of a step's run, completed.
ExpectedKinds == IF step = "deploy" THEN DeployOrder ELSE <<"run">>

Count(seq, k) == Cardinality({i \in 1..Len(seq) : seq[i] = k})

\* C6: when every call returns and the user answers, each step completes;
\* no kind of call is ever issued more often than the step's sequence has
\* it, and at completion every call of the sequence has been issued once
\* and has returned.
C6_RunsToCompletion ==
    /\ <>(status = "done")
    /\ [](\A k \in {Kinds[i] : i \in 1..Len(calls)} :
             Count(Kinds, k) <= Count(ExpectedKinds, k))
    /\ [](status = "done" =>
             /\ returned = Len(calls)
             /\ Len(calls) = Len(ExpectedKinds)
             /\ \A k \in {ExpectedKinds[i] : i \in 1..Len(ExpectedKinds)} :
                   Count(Kinds, k) = Count(ExpectedKinds, k))

C6_Witness ==
    /\ step = "deploy" /\ status = "done" /\ pc = "end"
    /\ Count(Kinds, "FindAndReplaceStep") = 3
    /\ Count(Kinds, "WaitForUserInputStep") = 1

\* The strings a call carries.
CallTexts(c) ==
    CASE c.kind = "run" ->
            {c.commands[i] : i \in 1..Len(c.commands)}
            \cup {c.description, c.name}
      [] c.kind = "getWorkspaceDirectory" -> {}
      [] c.kind = "FindAndReplaceStep" ->
            {c.filepath, c.pattern, c.replacement}
      [] c.kind = "highlightCode" -> {c.filepath, c.color}
      [] c.kind = "WaitForUserInputStep" -> {c.prompt}
      [] c.kind = "edit_file" -> {c.filepath, c.prompt}
      [] c.kind = "MessageStep" -> {c.message, c.name}

Mentions(c, text) ==
    text # <<>> /\ \E s \in CallTexts(c) : Contains(s, text)

\* C7: a step never changes its source_name, and the text the user typed
\* is in the instruction of the AI edit and in no other call the step issues.
C7_NothingRetained ==
    /\ source_name = supplied
    /\ \A i \in 1..Len(calls) :
          calls[i].kind # "edit_file" => ~Mentions(calls[i], response)
    /\ (response \in UserTexts /\ response # <<>>) =>
          Cardinality({i \in 1..Len(calls) : Mentions(calls[i], response)}) = 1

C7_Witness ==
    /\ step = "deploy" /\ status = "done" /\ response = <<"every day">>
    /\ source_name = <<"chess">>

FileKinds == {"FindAndReplaceStep", "highlightCode", "edit_file"}

\* C8: the three replacements, the highlight and the AI edit all name the
\* path os.path.join(directory, "dags/dag_{source_name}_pipeline.py"), bound
\* after the deploy command returned, and the AI edit is given the range
\* that was highlighted, 18:0 to 23:0.
C8_OneFileOneRange ==
    step = "deploy" =>
        /\ filepath # Unbound =>
              /\ returned >= 2
              /\ directory \in Directories
              /\ filepath =
                    PathJoin(directory,
                             <<"dags/dag_">> \o supplied \o <<"_pipeline.py">>)
        /\ \A i \in 1..Len(calls) :
              calls[i].kind \in FileKinds =>
                  filepath # Unbound /\ calls[i].filepath = filepath
        /\ \A j \in 1..Len(calls) :
              calls[j].kind = "edit_file" =>
                  /\ calls[j].range =
                        [start |-> [line |-> 18, character |-> 0],
                         end |-> [line |-> 23, character |-> 0]]
                  /\ \E i \in 1..(j - 1) :
                        /\ calls[i].kind = "highlightCode"
                        /\ calls[i].range = calls[j].range

C8_Witness ==
    /\ step = "deploy" /\ pc = "message" /\ directory = <<"/ws", "/">>
    /\ filepath = <<"/ws", "/", "dags/dag_", "chess", "_pipeline.py">>

\* The commands a description quotes between backquotes, in order.
RECURSIVE Quoted(_, _, _, _)
Quoted(d, inside, cur, acc) ==
    IF d = <<>> THEN acc
    ELSE IF Head(d) = Backtick
         THEN IF inside
              THEN Quoted(Tail(d), FALSE, <<>>, Append(acc, cur))
              ELSE Quoted(Tail(d), TRUE, <<>>, acc)
         ELSE Quoted(Tail(d), inside,
                     IF inside THEN Append(cur, Head(d)) ELSE cur, acc)

DescribedCommands(description) == Quoted(description, FALSE, <<>>, <<>>)

\* C9: the description SetupPipelineStep hands to the command runner quotes
\* the same commands, in the same order and with the same text, as the
\* command list of that call.
C9_DescriptionListsCommands ==
    \A i \in 1..Len(calls) :
        (step = "setup" /\ calls[i].kind = "run") =>
            DescribedCommands(calls[i].description) = calls[i].commands

----------------------------------------------------------------------------
(* The three replacements *)

\* The pattern/replacement pairs claimed for source name s.
Pairs(s) ==
    << <<PipelineNamePattern, <<"'">> \o s \o <<"_", "pipeline", "'">> >>,
       <<DatasetNamePattern, <<"'">> \o s \o <<"_", "data", "'">> >>,
       <<ScriptPattern, s \o <<"_", "pipeline">> >> >>

\* The third replacement has returned and the AI edit has not.
ThreeStepsDone ==
    step = "deploy" /\ pc \in {"highlightCode", "wait", "edit_file"}

\* The find-and-replace steps issued so far, as pattern/replacement pairs.
IsFindAndReplace(c) == c.kind = "FindAndReplaceStep"

IssuedPairs ==
    LET fars == SelectSeq(calls, IsFindAndReplace)
    IN  [k \in 1..Len(fars) |-> <<fars[k].pattern, fars[k].replacement>>]

\* The three substitutions applied at once: one pass from the left, at each
\* place the pattern that matches there is replaced and the scan goes on
\* behind it.
RECURSIVE Simultaneous(_, _)
Simultaneous(text, s) ==
    IF text = <<>> THEN <<>>
    ELSE LET hits == {k \in 1..3 : OccursAt(text, Pairs(s)[k][1], 1)}
         IN  IF hits = {}
             THEN <<Head(text)>> \o Simultaneous(Tail(text), s)
             ELSE LET k == CHOOSE h \in hits : \A j \in hits : h <= j
                  IN  Pairs(s)[k][2]
                      \o Simultaneous(
                             SubSeq(text, Len(Pairs(s)[k][1]) + 1, Len(text)),
                             s)

\* The three steps of the run applied once more to text.
Again(text) ==
    Apply(ScriptReplace(filepath, source_name),
          Apply(DatasetNameReplace(filepath, source_name),
                Apply(PipelineNameReplace(filepath, source_name), text)))

\* A chunk of letters, digits and underscores.
WordChunk(c) == c \notin {"'", " "}

\* A source name of letters, digits and underscores that does not contain
\* pipeline_or_source_script.
PlainName(s) ==
    /\ \A i \in 1..Len(s) : WordChunk(s[i])
    /\ ~Contains(s, ScriptPattern)

\* No two occurrences of the patterns overlap, and every occurrence of
\* pipeline_or_source_script is a whole word.
Separated(text) ==
    /\ LET pats == <<PipelineNamePattern, DatasetNamePattern, ScriptPattern>>
           occ == {o \in (1..3) \X (1..Len(text)) :
                      OccursAt(text, pats[o[1]], o[2])}
       IN  \A a, b \in occ :
               a # b => \/ a[2] + Len(pats[a[1]]) <= b[2]
                        \/ b[2] + Len(pats[b[1]]) <= a[2]
    /\ \A i \in 1..Len(text) :
          OccursAt(text, ScriptPattern, i) =>
              /\ i = 1 \/ ~WordChunk(text[i - 1])
              /\ i + Len(ScriptPattern) > Len(text)
                 \/ ~WordChunk(text[i + Len(ScriptPattern)])

\* C3 as stated: the find-and-replace steps are the three claimed pairs in
\* order, and after the three steps no pattern that was in the generated
\* file occurs in the file.
C3_Original ==
    step = "deploy" =>
        /\ IsPrefix(IssuedPairs, Pairs(supplied))
        /\ ThreeStepsDone =>
              /\ IssuedPairs = Pairs(supplied)
              /\ \A k \in 1..3 :
                    Contains(generated, Pairs(supplied)[k][1]) =>
                        ~Contains(content, Pairs(supplied)[k][1])

\* C3 amended: the find-and-replace steps are the three claimed pairs in
\* order; after the three steps none of the three patterns occurs in the
\* file, provided the source name is made of letters, digits and underscores
\* and does not contain pipeline_or_source_script, and in the generated file
\* no two pattern occurrences overlap and pipeline_or_source_script occurs
\* only as a whole word.
C3_ThreeReplacements ==
    step = "deploy" =>
        /\ IsPrefix(IssuedPairs, Pairs(supplied))
        /\ ThreeStepsDone =>
              /\ IssuedPairs = Pairs(supplied)
              /\ (PlainName(supplied) /\ Separated(generated)) =>
                    \A k \in 1..3 : ~Contains(content, Pairs(supplied)[k][1])

C3_Witness ==
    /\ ThreeStepsDone
    /\ supplied = <<"chess">>
    /\ generated = PipelineNamePattern \o ScriptPattern
    /\ Separated(generated)
    /\ content =
          <<"'", "chess", "_", "pipeline", "'", "chess", "_", "pipeline">>

\* C10 as stated: for every source name and generated file, the file after
\* the three steps is the simultaneous substitution of the generated file,
\* and the three steps applied again leave it as it is.
C10_Original ==
    ThreeStepsDone =>
        /\ content = Simultaneous(generated, supplied)
        /\ Again(content) = content

\* C10 amended: the same, for a source name made of letters, digits and
\* underscores that does not contain pipeline_or_source_script and a
\* generated file in which no two pattern occurrences overlap and
\* pipeline_or_source_script occurs only as a whole word.
C10_SequentialIsSimultaneous ==
    (ThreeStepsDone /\ PlainName(supplied) /\ Separated(generated)) =>
        /\ content = Simultaneous(generated, supplied)
        /\ Again(content) = content

C10_Witness ==
    /\ ThreeStepsDone
    /\ supplied = <<"sql", "_", "db">>
    /\ generated = DatasetNamePattern \o PipelineNamePattern
    /\ PlainName(supplied) /\ Separated(generated)
    /\ content # generated
    /\ content = Simultaneous(generated, supplied)

====
